---- MODULE Spec2Model ----
(***************************************************************************)
(* A model of sgit (src/sgit.py): the semantic-version store kept in the   *)
(* file sgit.version, and the run of main() that reads it, optionally     *)
(* increments or sets it, lists the changed files, lets the operator       *)
(* exclude some, stages, commits and pushes.                               *)
(*                                                                         *)
(* Text is modelled as a sequence of characters, each character a one-     *)
(* character string, so that splitting, trimming, parsing and formatting   *)
(* are computed the way the Python code computes them.  Two characters     *)
(* outside ASCII are written by their code point: "U+0663" is ARABIC-INDIC *)
(* DIGIT THREE (a decimal digit for \d, int() and str.isdigit()) and       *)
(* "U+00B2" is SUPERSCRIPT TWO (a digit for str.isdigit() only).           *)
(***************************************************************************)
EXTENDS Integers, Sequences, FiniteSets, TLC

VARIABLES
    pc,               \* position of the run inside main()
    run,              \* number of the current invocation of the program
    argv,             \* the increment flags on the command line, in the order given
    args,             \* argparse result: [M, m, p : BOOLEAN, s : None or text]
    file,             \* content of sgit.version at the tree root, or Absent
    file0,            \* content of sgit.version when the run started
    written,          \* the texts this run wrote to sgit.version, in order
    cmds,             \* external commands this run issued, with their outcome
    out,              \* messages this run printed, in order
    exit,             \* exit status of the run, NoExit while it is running
    current_version,  \* main's local current_version
    incremented,      \* main's local incremented
    version_display,  \* main's local version_display (the annotated label)
    changed_files,    \* main's local changed_files: <<filename, status_text, status_code>>
    files_to_add,     \* main's local files_to_add
    full_commit_message,  \* main's local full_commit_message
    commit_message,   \* main's local commit_message, None until it is read
    exclude_input,    \* main's local exclude_input, None until it is read
    tree,             \* the repository the run works on: what git status prints
                      \* for it, its changed paths, the paths staged at the start
    index             \* the paths whose change is staged in the git index

vars == <<pc, run, argv, args, file, file0, written, cmds, out, exit,
          current_version, incremented, version_display,
          changed_files, files_to_add, full_commit_message,
          commit_message, exclude_input, tree, index>>

\* Python's None, a file that does not exist and a process still running are
\* texts of one symbol that is no character.
None == <<"None">>
Absent == <<"Absent">>
NoExit == <<>>

\* sys.exit(n), or the return of main() for n = 0
Exit(n) == <<n>>

NoArgs == [M |-> FALSE, m |-> FALSE, p |-> FALSE, s |-> None]

-----------------------------------------------------------------------------
(* Characters and the Python string operations the program uses.           *)

Digits == <<"0", "1", "2", "3", "4", "5", "6", "7", "8", "9">>

AsciiDigit(c) == \E i \in 1..10 : Digits[i] = c

\* The class \d of a str pattern: every Unicode decimal digit.
ReDigit(c) == AsciiDigit(c) \/ c = "U+0663"

\* The value int() gives a decimal digit character.
DigitValue(c) ==
    IF c = "U+0663" THEN 3 ELSE (CHOOSE i \in 1..10 : Digits[i] = c) - 1

IsSpace(c) == c \in {" ", "\n", "\t"}

RECURSIVE lstrip(_)
lstrip(s) == IF s # <<>> /\ IsSpace(Head(s)) THEN lstrip(Tail(s)) ELSE s

RECURSIVE rstrip(_)
rstrip(s) ==
    IF s # <<>> /\ IsSpace(s[Len(s)]) THEN rstrip(SubSeq(s, 1, Len(s) - 1)) ELSE s

\* str.strip()
strip(s) == rstrip(lstrip(s))

\* str.split(sep) for a one-character separator
RECURSIVE split(_, _)
split(s, sep) ==
    IF \E i \in 1..Len(s) : s[i] = sep
    THEN LET i == CHOOSE k \in 1..Len(s) :
                      s[k] = sep /\ \A j \in 1..(k - 1) : s[j] # sep
         IN  <<SubSeq(s, 1, i - 1)>> \o split(SubSeq(s, i + 1, Len(s)), sep)
    ELSE <<s>>

\* int(s) for a text of decimal digits
RECURSIVE int(_)
int(s) ==
    IF s = <<>> THEN 0
    ELSE int(SubSeq(s, 1, Len(s) - 1)) * 10 + DigitValue(s[Len(s)])

\* str(n) for n >= 0
RECURSIVE str(_)
str(n) ==
    IF n < 10 THEN <<Digits[n + 1]>>
    ELSE str(n \div 10) \o <<Digits[(n % 10) + 1]>>

Fmt02dNoPad(n) == str(n)

\* The format specification {n:02d}: at least two digits, zero padded.
Fmt02d(n) == IF Len(str(n)) < 2 THEN <<"0">> \o str(n) ELSE str(n)

\* The eight characters of \d{2}\.\d{2}\.\d{2}
Triplet(s) ==
    /\ Len(s) = 8
    /\ \A i \in {1, 2, 4, 5, 7, 8} : ReDigit(s[i])
    /\ s[3] = "." /\ s[6] = "."

\* re.match(r'^\d{2}\.\d{2}\.\d{2}$', s): without re.MULTILINE the $ matches
\* at the end of the text and also just before a newline that ends the text.
VersionRe(s) ==
    \/ Triplet(s)
    \/ Len(s) = 9 /\ s[9] = "\n" /\ Triplet(SubSeq(s, 1, 8))

DEFAULT_VERSION == <<"0", "0", ".", "0", "0", ".", "0", "1">>

Modulus == 100

-----------------------------------------------------------------------------
(* increment_version and format_version_with_stars                         *)

Append3(seq, cond, x) == IF cond THEN Append(seq, x) ELSE seq

increment_version_noreset(cv, major, minor, patch) ==
    LET parts == split(cv, ".")
        major_val == IF major THEN (int(parts[1]) + 1) % Modulus ELSE int(parts[1])
        minor_val == IF minor THEN (int(parts[2]) + 1) % Modulus ELSE int(parts[2])
        patch_val == IF patch THEN (int(parts[3]) + 1) % Modulus ELSE int(parts[3])
    IN  [version |-> Fmt02d(major_val) \o <<".">> \o Fmt02d(minor_val)
                       \o <<".">> \o Fmt02d(patch_val),
         incremented |-> Append3(Append3(Append3(<<>>, major, "major"),
                                         minor, "minor"), patch, "patch")]

increment_version_carry(cv, major, minor, patch) ==
    LET parts == split(cv, ".")
        p1 == IF patch THEN int(parts[3]) + 1 ELSE int(parts[3])
        n0 == IF minor THEN int(parts[2]) + 1 ELSE int(parts[2])
        n1 == IF p1 >= Modulus THEN n0 + 1 ELSE n0
        m0 == IF major THEN int(parts[1]) + 1 ELSE int(parts[1])
        m1 == IF n1 >= Modulus THEN m0 + 1 ELSE m0
        i1 == Append3(<<>>, major, "major")
        i2 == Append3(i1, minor, "minor")
        i3 == Append3(i2, patch, "patch")
    IN  [version |-> Fmt02d(m1 % Modulus) \o <<".">> \o
                     Fmt02d(IF major THEN 0 ELSE n1 % Modulus) \o <<".">> \o
                     Fmt02d(IF major \/ minor THEN 0 ELSE p1 % Modulus),
         incremented |-> i3]

increment_version(cv, major, minor, patch) ==
    LET parts == split(cv, ".")
        major_val0 == int(parts[1])
        minor_val0 == int(parts[2])
        patch_val0 == int(parts[3])
        \* if major:
        major_val1 == IF major THEN (major_val0 + 1) % Modulus ELSE major_val0
        minor_val1 == IF major THEN 0 ELSE minor_val0
        patch_val1 == IF major THEN 0 ELSE patch_val0
        inc1 == Append3(<<>>, major, "major")
        \* if minor:
        minor_val2 == IF minor THEN (minor_val1 + 1) % Modulus ELSE minor_val1
        patch_val2 == IF minor THEN 0 ELSE patch_val1
        inc2 == Append3(inc1, minor, "minor")
        \* if patch:
        patch_val3 == IF patch THEN (patch_val2 + 1) % Modulus ELSE patch_val2
        inc3 == Append3(inc2, patch, "patch")
    IN  [version |-> Fmt02d(major_val1) \o <<".">> \o Fmt02d(minor_val2)
                       \o <<".">> \o Fmt02d(patch_val3),
         incremented |-> inc3]

In(x, seq) == \E i \in 1..Len(seq) : seq[i] = x

format_version_with_stars_all(version, incr) ==
    IF incr = <<>> THEN version
    ELSE LET parts == split(version, ".")
         IN  <<"*">> \o parts[1] \o <<".">> \o <<"*">> \o parts[2] \o <<".">>
               \o <<"*">> \o parts[3]

format_version_with_stars(version, incr) ==
    IF incr = <<>> THEN version
    ELSE LET parts == split(version, ".")
             star(name) == IF In(name, incr) THEN <<"*">> ELSE <<>>
         IN  star("major") \o parts[1] \o <<".">>
               \o star("minor") \o parts[2] \o <<".">>
               \o star("patch") \o parts[3]

-----------------------------------------------------------------------------
(* run_command, get_git_root and the version store.  An operation takes    *)
(* the outcome of the external command it runs and the world w it acts on  *)
(* (the version file, what was written, the commands issued, the messages  *)
(* printed) and gives the world after it, with its return value in ret     *)
(* and, when it ended the process through sys.exit, the status in exit.    *)

World == [file |-> file, written |-> written, cmds |-> cmds, out |-> out,
          index |-> index, ret |-> None, exit |-> NoExit]

Cmd(name, arg, ok) == [name |-> name, arg |-> arg, ok |-> ok]

Msg(text, val) == [text |-> text, val |-> val]

\* What a git command that exits zero does to the index: git reset unstages
\* everything, git add . stages every changed path of the tree, git reset HEAD
\* "<arg>" unstages the path that arg names and exits zero also when arg names
\* no path, git commit moves what is staged into the new commit.
git(name, arg, idx) ==
    CASE name = "reset" -> {}
      [] name = "add" -> tree.paths
      [] name = "reset HEAD" -> idx \ {arg}
      [] name = "commit" -> {}
      [] OTHER -> idx

run_command_noexit(name, arg, ok, w) ==
    IF ok
    THEN [w EXCEPT !.cmds = Append(@, Cmd(name, arg, TRUE)),
                   !.index = git(name, arg, @)]
    ELSE [w EXCEPT !.cmds = Append(@, Cmd(name, arg, FALSE)),
                   !.out = Append(@, Msg("Error executing", <<name>>))]

\* run_command: the command is issued; a non-zero exit prints the command and
\* its stderr and raises SystemExit(1).
run_command(name, arg, ok, w) ==
    IF ok
    THEN [w EXCEPT !.cmds = Append(@, Cmd(name, arg, TRUE)),
                   !.index = git(name, arg, @)]
    ELSE [w EXCEPT !.cmds = Append(@, Cmd(name, arg, FALSE)),
                   !.out = Append(@, Msg("Error executing", <<name>>)),
                   !.exit = Exit(1)]

get_git_root_fallback(ok, w) ==
    LET r == [w EXCEPT !.cmds = Append(@, Cmd("rev-parse", <<>>, ok))]
    IN  [r EXCEPT !.ret = IF ok THEN <<"root">> ELSE <<".">>]

\* get_git_root: the bare except catches the SystemExit of run_command,
\* prints its own message and exits 1 again.
get_git_root(ok, w) ==
    LET r == run_command("rev-parse", <<>>, ok, w)
    IN  IF r.exit = NoExit
        THEN [r EXCEPT !.ret = <<"root">>]
        ELSE [r EXCEPT !.out = Append(@, Msg("Error: Not in a Git repository.", <<>>)),
                       !.exit = Exit(1)]

get_current_version_noheal(ok, w) ==
    LET g == get_git_root(ok, w)
    IN  IF g.exit # NoExit THEN g
        ELSE IF g.file # Absent /\ VersionRe(strip(g.file))
        THEN [g EXCEPT !.ret = strip(g.file)]
        ELSE [g EXCEPT !.ret = DEFAULT_VERSION]

get_current_version(ok, w) ==
    LET g == get_git_root(ok, w)
    IN  IF g.exit # NoExit THEN g
        ELSE IF g.file # Absent
        THEN LET version == strip(g.file)
             IN  IF VersionRe(version)
                 THEN [g EXCEPT !.ret = version]
                 ELSE [g EXCEPT
                         !.out = Append(@, Msg("Warning: Invalid version format",
                                               DEFAULT_VERSION)),
                         !.file = DEFAULT_VERSION,
                         !.written = Append(@, DEFAULT_VERSION),
                         !.ret = DEFAULT_VERSION]
        ELSE [g EXCEPT
                !.out = Append(@, Msg("Creating new sgit.version", DEFAULT_VERSION)),
                !.file = DEFAULT_VERSION,
                !.written = Append(@, DEFAULT_VERSION),
                !.ret = DEFAULT_VERSION]

set_version(version, ok, w) ==
    IF ~VersionRe(version)
    THEN [w EXCEPT !.out = Append(@, Msg("Error: Version must be in format XX.XX.XX",
                                         <<>>)),
                   !.exit = Exit(1)]
    ELSE LET g == get_git_root(ok, w)
         IN  IF g.exit # NoExit THEN g
             ELSE [g EXCEPT !.file = version,
                            !.written = Append(@, version),
                            !.out = Append(@, Msg("Version set to", version)),
                            !.ret = version]

-----------------------------------------------------------------------------
(* get_changed_files and the selection of main()                           *)

Min(a, b) == IF a < b THEN a ELSE b

\* The slices line[:n] and line[n:]
Take(s, n) == SubSeq(s, 1, Min(n, Len(s)))
Drop(s, n) == SubSeq(s, n + 1, Len(s))

StatusWidth == 2

INSERT == "INSERT"
DELETE == "DELETE"
UPDATE == "UPDATE"
Unknown == "Unknown"

status_text_of(status_code) ==
    IF status_code = <<"?", "?">> THEN INSERT
    ELSE IF status_code = <<"D">> THEN DELETE
    ELSE IF status_code = <<"M">> THEN UPDATE
    ELSE Unknown

RECURSIVE parse_status_lines_column3(_)
parse_status_lines_column3(lines) ==
    IF lines = <<>> THEN <<>>
    ELSE LET line == Head(lines)
             status_code == strip(Take(line, StatusWidth))
             filename == Drop(line, StatusWidth + 1)
         IN  (IF strip(line) # <<>>
              THEN <<[filename |-> filename,
                      status_text |-> status_text_of(status_code),
                      status_code |-> status_code]>>
              ELSE <<>>) \o parse_status_lines_column3(Tail(lines))

RECURSIVE parse_status_lines(_)
parse_status_lines(lines) ==
    IF lines = <<>> THEN <<>>
    ELSE LET line == Head(lines)
             status_code == strip(Take(line, StatusWidth))
             filename == strip(Drop(line, StatusWidth))
         IN  (IF strip(line) # <<>>
              THEN <<[filename |-> filename,
                      status_text |-> status_text_of(status_code),
                      status_code |-> status_code]>>
              ELSE <<>>) \o parse_status_lines(Tail(lines))

get_changed_files_noempty(ok, stdout, w) ==
    LET r == run_command("status", <<>>, ok, w)
        status_output == strip(stdout)
    IN  IF r.exit # NoExit THEN r
        ELSE [r EXCEPT !.ret = parse_status_lines(split(status_output, "\n"))]

\* get_changed_files: stdout is what git status --porcelain printed.
get_changed_files(ok, stdout, w) ==
    LET r == run_command("status", <<>>, ok, w)
        status_output == strip(stdout)
    IN  IF r.exit # NoExit THEN r
        ELSE IF status_output = <<>>
        THEN [r EXCEPT !.out = Append(@, Msg("No changes to commit.", <<>>)),
                       !.exit = Exit(0)]
        ELSE [r EXCEPT !.ret = parse_status_lines(split(status_output, "\n"))]

\* str.isdigit(): not empty, and every character a digit; the superscript
\* digits count, which int() does not accept.
IsDigitChar(c) == ReDigit(c) \/ c = "U+00B2"
isdigit(s) == s # <<>> /\ \A i \in 1..Len(s) : IsDigitChar(s[i])

\* int() raises ValueError on a text str.isdigit() accepts and \d does not.
IntRaises(s) == \E i \in 1..Len(s) : ~ReDigit(s[i])

RECURSIVE SelectSeq2(_, _)
SelectSeq2(seq, keep) ==
    IF seq = <<>> THEN <<>>
    ELSE (IF keep[1] THEN <<Head(seq)>> ELSE <<>>)
           \o SelectSeq2(Tail(seq), Tail(keep))

Filenames(files) == [i \in 1..Len(files) |-> files[i].filename]

select_files_zero_based(raw, files, w) ==
    LET typed == strip(raw)
        tokens == split(typed, ",")
        digit_tokens == SelectSeq(tokens, LAMBDA tok : isdigit(strip(tok)))
        raises == \E i \in 1..Len(digit_tokens) : IntRaises(strip(digit_tokens[i]))
        exclude_indices == {int(strip(digit_tokens[i])) : i \in 1..Len(digit_tokens)}
        kept == SelectSeq2(Filenames(files),
                           [i \in 1..Len(files) |-> (i - 1) \notin exclude_indices])
    IN  IF typed = <<>>
        THEN [w EXCEPT !.ret = Filenames(files)]
        ELSE IF raises
        THEN [w EXCEPT !.out = Append(@, Msg("Invalid input. Including all files.", <<>>)),
                       !.ret = Filenames(files)]
        ELSE IF kept = <<>>
        THEN [w EXCEPT !.out = Append(@, Msg("No files selected for commit. Exiting.",
                                             <<>>)),
                       !.ret = kept,
                       !.exit = Exit(0)]
        ELSE [w EXCEPT !.ret = kept]

select_files_strict(raw, files, w) ==
    LET typed == strip(raw)
        tokens == split(typed, ",")
        digit_tokens == SelectSeq(tokens, LAMBDA tok : isdigit(strip(tok)))
        raises == \E i \in 1..Len(tokens) : ~isdigit(strip(tokens[i]))
                    \/ IntRaises(strip(tokens[i]))
        exclude_indices == {int(strip(digit_tokens[i])) : i \in 1..Len(digit_tokens)}
        kept == SelectSeq2(Filenames(files),
                           [i \in 1..Len(files) |-> i \notin exclude_indices])
    IN  IF typed = <<>>
        THEN [w EXCEPT !.ret = Filenames(files)]
        ELSE IF raises
        THEN [w EXCEPT !.out = Append(@, Msg("Invalid input. Including all files.", <<>>)),
                       !.ret = Filenames(files)]
        ELSE IF kept = <<>>
        THEN [w EXCEPT !.out = Append(@, Msg("No files selected for commit. Exiting.",
                                             <<>>)),
                       !.ret = kept,
                       !.exit = Exit(0)]
        ELSE [w EXCEPT !.ret = kept]

select_files_noexit(raw, files, w) ==
    LET typed == strip(raw)
        tokens == split(typed, ",")
        digit_tokens == SelectSeq(tokens, LAMBDA tok : isdigit(strip(tok)))
        raises == \E i \in 1..Len(digit_tokens) : IntRaises(strip(digit_tokens[i]))
        exclude_indices == {int(strip(digit_tokens[i])) : i \in 1..Len(digit_tokens)}
        kept == SelectSeq2(Filenames(files),
                           [i \in 1..Len(files) |-> i \notin exclude_indices])
    IN  IF typed = <<>>
        THEN [w EXCEPT !.ret = Filenames(files)]
        ELSE IF raises
        THEN [w EXCEPT !.out = Append(@, Msg("Invalid input. Including all files.", <<>>)),
                       !.ret = Filenames(files)]
        ELSE [w EXCEPT !.ret = kept]

select_files_range_checked(raw, files, w) ==
    LET typed == strip(raw)
        tokens == split(typed, ",")
        digit_tokens == SelectSeq(tokens, LAMBDA tok : isdigit(strip(tok)))
        exclude_indices == {int(strip(digit_tokens[i])) : i \in 1..Len(digit_tokens)}
        raises == \/ \E i \in 1..Len(digit_tokens) : IntRaises(strip(digit_tokens[i]))
                  \/ \E n \in exclude_indices : n \notin 1..Len(files)
        kept == SelectSeq2(Filenames(files),
                           [i \in 1..Len(files) |-> i \notin exclude_indices])
    IN  IF typed = <<>>
        THEN [w EXCEPT !.ret = Filenames(files)]
        ELSE IF raises
        THEN [w EXCEPT !.out = Append(@, Msg("Invalid input. Including all files.", <<>>)),
                       !.ret = Filenames(files)]
        ELSE IF kept = <<>>
        THEN [w EXCEPT !.out = Append(@, Msg("No files selected for commit. Exiting.",
                                             <<>>)),
                       !.ret = kept,
                       !.exit = Exit(0)]
        ELSE [w EXCEPT !.ret = kept]

\* main, lines 213-233: the files to add for the raw text typed at the
\* exclusion prompt, with the messages printed and the exit taken.
select_files(raw, files, w) ==
    LET typed == strip(raw)
        tokens == split(typed, ",")
        digit_tokens == SelectSeq(tokens, LAMBDA tok : isdigit(strip(tok)))
        raises == \E i \in 1..Len(digit_tokens) : IntRaises(strip(digit_tokens[i]))
        exclude_indices == {int(strip(digit_tokens[i])) : i \in 1..Len(digit_tokens)}
        kept == SelectSeq2(Filenames(files),
                           [i \in 1..Len(files) |-> i \notin exclude_indices])
    IN  IF typed = <<>>
        THEN [w EXCEPT !.ret = Filenames(files)]
        ELSE IF raises
        THEN [w EXCEPT !.out = Append(@, Msg("Invalid input. Including all files.", <<>>)),
                       !.ret = Filenames(files)]
        ELSE IF kept = <<>>
        THEN [w EXCEPT !.out = Append(@, Msg("No files selected for commit. Exiting.",
                                             <<>>)),
                       !.ret = kept,
                       !.exit = Exit(0)]
        ELSE [w EXCEPT !.ret = kept]

\* The commands run one after the other until one fails: the first n of
\* them exit zero.
RECURSIVE run_commands(_, _, _)
run_commands(list, n, w) ==
    IF list = <<>> THEN w
    ELSE LET c == Head(list)
             v == IF c.name = "reset HEAD"
                  THEN [w EXCEPT !.out = Append(@, Msg("Excluding", c.arg))]
                  ELSE w
             r == run_command(c.name, c.arg, n > 0, v)
         IN  IF r.exit # NoExit THEN r ELSE run_commands(Tail(list), n - 1, r)

\* main, lines 240-262: git reset, git add ., then git reset HEAD "<file>"
\* for every listed file that is not to be added.
stage_commands(files, to_add) ==
    LET all_files == Filenames(files)
        files_to_remove == SelectSeq(all_files, LAMBDA f : ~In(f, to_add))
    IN  <<Cmd("reset", <<>>, TRUE), Cmd("add", <<".">>, TRUE)>>
          \o [i \in 1..Len(files_to_remove) |->
                Cmd("reset HEAD", files_to_remove[i], TRUE)]

-----------------------------------------------------------------------------
(* The inputs of a run                                                     *)

MaxRuns == 2

\* Fields 0..FieldSpan and 99-FieldSpan..99, with 9 and 10, are the values the
\* version tokens of SpecVersion take in each field.
FieldSpan == 5

V010509 == <<"0", "1", ".", "0", "5", ".", "0", "9">>
V999999 == <<"9", "9", ".", "9", "9", ".", "9", "9">>
V010203 == <<"0", "1", ".", "0", "2", ".", "0", "3">>
V123 == <<"1", ".", "2", ".", "3">>

\* What sgit.version may hold when the program is first run.
InitialFiles ==
    { Absent, DEFAULT_VERSION, V010509, V999999,
      V010509 \o <<"\n">>,
      <<" ">> \o V010509,
      V123,
      <<"0", "U+0663", ".", "0", "0", ".", "9", "9">> }

\* The values of args.s: None when -s is not given.
SetValues ==
    { None, <<>>, V010203,
      V010203 \o <<"\n">>,
      V010203 \o <<" ">>,
      V123,
      <<"0", "0", "1", ".", "0", "2", ".", "0", "3">>,
      <<"-", "1", ".", "0", "2", ".", "0", "3">>,
      <<"0", "U+0663", ".", "0", "2", ".", "0", "3">> }

ArgsSet == [M : BOOLEAN, m : BOOLEAN, p : BOOLEAN, s : SetValues]

\* The increment flags as typed: each at most once, in any order.
Flags == {"-M", "-m", "-p"}
ArgvSet ==
    {av \in UNION {[1..n -> Flags] : n \in 0..Cardinality(Flags)} :
        \A i, j \in 1..Len(av) : av[i] = av[j] => i = j}

parse_args_last(av, s) ==
    LET last == IF av = <<>> THEN "" ELSE av[Len(av)]
    IN  [M |-> last = "-M", m |-> last = "-m", p |-> last = "-p", s |-> s]

\* parser.parse_args(): a store_true flag is set when it occurs on the
\* command line, wherever it stands; s is the value given to -s, or None.
parse_args(av, s) ==
    [M |-> In("-M", av), m |-> In("-m", av), p |-> In("-p", av), s |-> s]

\* The repositories a run may find: what git status --porcelain prints for
\* each, the paths that have a change, and the paths whose change is staged
\* when the run starts.  The last one has a staged rename of o to n
\* and a file f changed again after it was staged.
Tree(stdout, paths, staged) == [stdout |-> stdout, paths |-> paths, staged |-> staged]

CleanTree == Tree(<<>>, {}, {})

Trees ==
    { CleanTree,
      Tree(<<"?", "?", " ", "f", "\n", "M", " ", " ", "b", "\n">>,
           {<<"f">>, <<"b">>}, {<<"b">>}),
      Tree(<<" ", "M", " ", "f", "\n">>, {<<"f">>}, {}),
      Tree(<<"D", " ", " ", "a", "\n", " ", "M", " ", "b", "\n",
             "A", " ", " ", "c", "\n">>,
           {<<"a">>, <<"b">>, <<"c">>}, {<<"a">>, <<"c">>}),
      Tree(<<"M", "M", " ", "f", "\n",
             "R", " ", " ", "o", " ", "-", ">", " ", "n", "\n">>,
           {<<"o">>, <<"n">>, <<"f">>}, {<<"o">>, <<"n">>, <<"f">>}) }

\* What git status --porcelain may print.
StatusOutputs == {t.stdout : t \in Trees}

\* What the operator may type at the exclusion prompt.
ExcludeInputs ==
    { <<>>, <<"2">>, <<"1", ",", "a">>, <<"a">>, <<"1", ",", " ", "2", ",", "3">>,
      <<"0", ",", "4">>, <<"U+00B2">> }

\* What the operator may type at the commit message prompt.
MessageInputs == { <<>>, <<" ", "f", "i", "x", " ">>, <<"\"", "x", "\"">> }

\* datetime.now().strftime('%Y-%m-%d %H:%M:%S'), whatever the clock says
Timestamp == <<"%Y-%m-%d %H:%M:%S">>

AutomaticCommitAt == <<"A", "u", "t", "o", "m", "a", "t", "i", "c", " ",
                       "c", "o", "m", "m", "i", "t", " ", "a", "t", " ">>

\* The shell (subprocess.run with shell=True) reads the command line: the
\* word it hands to git for a text put between double quotes.  A double
\* quote inside the text closes and reopens the quoting and is removed; with
\* an odd number of them the command line is a syntax error.
Balanced(s) == Cardinality({i \in 1..Len(s) : s[i] = "\""}) % 2 = 0
sh_double_quoted(s) == SelectSeq(s, LAMBDA c : c # "\"")

\* Python truth of args.s
Truthy(s) == s # None /\ s # <<>>

-----------------------------------------------------------------------------
(* main()                                                                  *)

Locals0 ==
    /\ current_version = None
    /\ incremented = <<>>
    /\ version_display = None
    /\ changed_files = <<>>
    /\ files_to_add = <<>>
    /\ full_commit_message = None
    /\ exclude_input = None
    /\ commit_message = None

Init ==
    /\ pc = "start"
    /\ run = 1
    /\ argv = <<>>
    /\ args = NoArgs
    /\ file \in InitialFiles
    /\ file0 = file
    /\ written = <<>>
    /\ cmds = <<>>
    /\ out = <<>>
    /\ exit = NoExit
    /\ Locals0
    /\ tree \in Trees
    /\ index = tree.staged

\* The world after an operation, and where the run goes: to pc "next" when the
\* operation returned, to "done" when it ended the process.
Apply(r, next) ==
    /\ file' = r.file
    /\ written' = r.written
    /\ cmds' = r.cmds
    /\ out' = r.out
    /\ exit' = r.exit
    /\ index' = r.index
    /\ pc' = IF r.exit = NoExit THEN next ELSE "done"

\* lines 180-186: parser.parse_args()
ParseArgs ==
    /\ pc = "start"
    /\ args' \in ArgsSet
    /\ argv' \in {av \in ArgvSet : parse_args(av, args'.s) = args'}
    /\ pc' = "parsed"
    /\ UNCHANGED <<run, file, file0, written, cmds, out, exit, current_version,
                   incremented, version_display, changed_files, files_to_add,
                   full_commit_message, exclude_input,
                   commit_message, tree, index>>

SetOnlyNoReturn ==
    /\ pc = "parsed"
    /\ Truthy(args.s)
    /\ \E ok \in BOOLEAN :
         LET r == set_version(args.s, ok, World)
         IN  /\ Apply(r, "have_version")
             /\ current_version' = args.s
    /\ UNCHANGED <<run, argv, args, file0, incremented, version_display,
                   changed_files, files_to_add, full_commit_message,
                   exclude_input, commit_message, tree>>

\* lines 189-191: if args.s: set_version(args.s); return
SetOnly ==
    /\ pc = "parsed"
    /\ Truthy(args.s)
    /\ \E ok \in BOOLEAN :
         LET r == set_version(args.s, ok, World)
         IN  Apply([r EXCEPT !.exit = IF @ = NoExit THEN Exit(0) ELSE @], "done")
    /\ UNCHANGED <<run, argv, args, file0, current_version, incremented, version_display,
                   changed_files, files_to_add, full_commit_message,
                   exclude_input,
                   commit_message, tree>>

\* line 194: current_version = get_current_version()
GetCurrentVersion ==
    /\ pc = "parsed"
    /\ ~Truthy(args.s)
    /\ \E ok \in BOOLEAN :
         LET r == get_current_version(ok, World)
         IN  /\ Apply(r, "have_version")
             /\ current_version' = r.ret
    /\ UNCHANGED <<run, argv, args, file0, incremented, version_display,
                   changed_files, files_to_add, full_commit_message,
                   exclude_input,
                   commit_message, tree>>

HandleIncrementsUnsaved ==
    /\ pc = "have_version"
    /\ LET iv == increment_version(current_version, args.M, args.m, args.p)
       IN  /\ incremented' = IF args.M \/ args.m \/ args.p THEN iv.incremented ELSE <<>>
           /\ current_version' =
                IF args.M \/ args.m \/ args.p THEN iv.version ELSE current_version
    /\ pc' = "versioned"
    /\ UNCHANGED <<run, argv, args, file, file0, written, cmds, out, exit, index,
                   version_display, changed_files, files_to_add, full_commit_message,
                   exclude_input, commit_message, tree>>

HandleIncrementsAlways ==
    /\ pc = "have_version"
    /\ \E ok \in BOOLEAN :
         LET iv == increment_version(current_version, args.M, args.m, args.p)
             r == set_version(iv.version, ok, World)
         IN  /\ Apply(r, "versioned")
             /\ incremented' = iv.incremented
             /\ current_version' =
                  IF r.exit = NoExit THEN iv.version ELSE current_version
    /\ UNCHANGED <<run, argv, args, file0, version_display,
                   changed_files, files_to_add, full_commit_message,
                   exclude_input,
                   commit_message, tree>>

\* lines 197-201: the increments asked for, written back at once
HandleIncrements ==
    /\ pc = "have_version"
    /\ IF args.M \/ args.m \/ args.p
       THEN \E ok \in BOOLEAN :
              LET iv == increment_version(current_version, args.M, args.m, args.p)
                  r == set_version(iv.version, ok, World)
              IN  /\ Apply(r, "versioned")
                  /\ incremented' = iv.incremented
                  /\ current_version' =
                       IF r.exit = NoExit THEN iv.version ELSE current_version
       ELSE /\ pc' = "versioned"
            /\ incremented' = <<>>
            /\ UNCHANGED <<file, written, cmds, out, exit, index, current_version>>
    /\ UNCHANGED <<run, argv, args, file0, version_display,
                   changed_files, files_to_add, full_commit_message,
                   exclude_input,
                   commit_message, tree>>

\* line 204: changed_files = get_changed_files()
GetChangedFiles ==
    /\ pc = "versioned"
    /\ \E ok \in BOOLEAN :
         LET r == get_changed_files(ok, tree.stdout, World)
         IN  /\ Apply(r, "listed")
             /\ changed_files' = IF r.exit = NoExit THEN r.ret ELSE changed_files
    /\ UNCHANGED <<run, argv, args, file0, current_version, incremented, version_display,
                   files_to_add, full_commit_message, exclude_input,
                   commit_message, tree>>

\* lines 207-238: the list is shown, the exclusions are read and applied
SelectFiles ==
    /\ pc = "listed"
    /\ \E raw \in ExcludeInputs :
         LET r == select_files(raw, changed_files, World)
         IN  /\ Apply(r, "selected")
             /\ files_to_add' = r.ret
             /\ exclude_input' = strip(raw)
    /\ UNCHANGED <<run, argv, args, file0, current_version, incremented, version_display,
                   changed_files, full_commit_message,
                   commit_message, tree>>

\* lines 241-262: staging
Stage ==
    /\ pc = "selected"
    /\ IF files_to_add # <<>>
       THEN LET list == stage_commands(changed_files, files_to_add)
            IN  \E n \in 0..Len(list) :
                  LET r == run_commands(list, n, World)
                  IN  Apply(IF r.exit = NoExit
                            THEN [r EXCEPT !.out = Append(@, Msg("Added",
                                                                 <<Len(files_to_add)>>))]
                            ELSE r,
                            "staged")
       ELSE Apply(World, "staged")
    /\ UNCHANGED <<run, argv, args, file0, current_version, incremented, version_display,
                   changed_files, files_to_add, full_commit_message,
                   exclude_input,
                   commit_message, tree>>

\* lines 265-276: the commit message is read and the full message built
ReadMessage ==
    /\ pc = "staged"
    /\ \E raw \in MessageInputs :
         LET message == IF strip(raw) = <<>>
                        THEN AutomaticCommitAt \o Timestamp
                        ELSE strip(raw)
             label == format_version_with_stars(current_version, incremented)
         IN  /\ commit_message' = message
             /\ version_display' = label
             /\ full_commit_message' = <<"[">> \o label \o <<"]", " ">> \o message
    /\ pc' = "message"
    /\ UNCHANGED <<run, argv, args, file, file0, written, cmds, out, exit, current_version,
                   incremented, changed_files, files_to_add, exclude_input,
                   tree, index>>

\* lines 279-280: git commit -m "<full_commit_message>"
Commit ==
    /\ pc = "message"
    /\ \E ok \in (IF Balanced(full_commit_message) THEN BOOLEAN ELSE {FALSE}) :
         Apply(run_command("commit", sh_double_quoted(full_commit_message), ok,
                           [World EXCEPT !.out = Append(@, Msg("Committing with message",
                                                               full_commit_message))]),
               "committed")
    /\ UNCHANGED <<run, argv, args, file0, current_version, incremented, version_display,
                   changed_files, files_to_add, full_commit_message,
                   exclude_input,
                   commit_message, tree>>

\* lines 282-285: git push, and the report of the version
Push ==
    /\ pc = "committed"
    /\ \E ok \in BOOLEAN :
         LET r == run_command("push", <<>>, ok,
                              [World EXCEPT !.out = Append(@, Msg("Pushing", <<>>))])
         IN  Apply(IF r.exit = NoExit
                   THEN [r EXCEPT !.out = Append(@, Msg("Successfully pushed with version",
                                                        current_version)),
                                  !.exit = Exit(0)]
                   ELSE r,
                   "done")
    /\ UNCHANGED <<run, argv, args, file0, current_version, incremented, version_display,
                   changed_files, files_to_add, full_commit_message,
                   exclude_input,
                   commit_message, tree>>

\* The program is invoked again, on the version file the last run left.
NextRun ==
    /\ pc = "done"
    /\ run < MaxRuns
    /\ run' = run + 1
    /\ pc' = "start"
    /\ argv' = <<>>
    /\ args' = NoArgs
    /\ file0' = file
    /\ written' = <<>>
    /\ cmds' = <<>>
    /\ out' = <<>>
    /\ exit' = NoExit
    /\ current_version' = None
    /\ incremented' = <<>>
    /\ version_display' = None
    /\ changed_files' = <<>>
    /\ files_to_add' = <<>>
    /\ full_commit_message' = None
    /\ exclude_input' = None
    /\ commit_message' = None
    /\ tree' \in Trees
    /\ index' = tree'.staged
    /\ UNCHANGED file

Next ==
    \/ ParseArgs
    \/ SetOnly
    \/ GetCurrentVersion
    \/ HandleIncrements
    \/ GetChangedFiles
    \/ SelectFiles
    \/ Stage
    \/ ReadMessage
    \/ Commit
    \/ Push
    \/ NextRun

Spec == Init /\ [][Next]_vars

-----------------------------------------------------------------------------
(* The version functions on their own: the run stands where main() has     *)
(* read a version token from the file, and increment_version and           *)
(* format_version_with_stars are applied to it for every choice of flags.  *)

FieldValues ==
    {n \in 0..99 : n <= FieldSpan \/ n >= 99 - FieldSpan \/ n \in {9, 10}}

\* The two-character texts of those values, and one with a digit outside ASCII.
FieldTexts ==
    {<<Digits[ab[1] + 1], Digits[ab[2] + 1]>> :
        ab \in {x \in (0..9) \X (0..9) : 10 * x[1] + x[2] \in FieldValues}}
      \cup {<<"0", "U+0663">>}

VersionTokens ==
    {f1 \o <<".">> \o f2 \o <<".">> \o f3 : f1, f2, f3 \in FieldTexts}
      \cup {V010509}

VInit ==
    /\ pc = "have_version"
    /\ run = 1
    /\ argv \in ArgvSet
    /\ args = parse_args(argv, None)
    /\ file \in VersionTokens
    /\ file0 = file
    /\ written = <<>>
    /\ cmds = <<Cmd("rev-parse", <<>>, TRUE)>>
    /\ out = <<>>
    /\ exit = NoExit
    /\ current_version = file
    /\ incremented = <<>>
    /\ version_display = None
    /\ changed_files = <<>>
    /\ files_to_add = <<>>
    /\ full_commit_message = None
    /\ exclude_input = None
    /\ commit_message = None
    /\ tree = CleanTree
    /\ index = tree.staged

\* line 199: new_version, incremented = increment_version(current_version, ...)
IncrementVersion ==
    /\ pc = "have_version"
    /\ LET iv == increment_version(current_version, args.M, args.m, args.p)
       IN  /\ current_version' = iv.version
           /\ incremented' = iv.incremented
    /\ pc' = "incremented"
    /\ UNCHANGED <<run, argv, args, file, file0, written, cmds, out, exit, version_display,
                   changed_files, files_to_add, full_commit_message,
                   exclude_input,
                   commit_message, tree, index>>

\* line 273: version_display = format_version_with_stars(current_version, incremented)
FormatVersionWithStars ==
    /\ pc = "incremented"
    /\ version_display' = format_version_with_stars(current_version, incremented)
    /\ pc' = "labelled"
    /\ UNCHANGED <<run, argv, args, file, file0, written, cmds, out, exit, current_version,
                   incremented, changed_files, files_to_add, full_commit_message,
                   exclude_input,
                   commit_message, tree, index>>

VNext ==
    \/ IncrementVersion
    \/ FormatVersionWithStars

SpecVersion == VInit /\ [][VNext]_vars

-----------------------------------------------------------------------------
(* What the properties below read off a version text                       *)

\* Three fields of two ASCII digits joined by periods, and nothing else.
StrictToken(v) ==
    /\ Len(v) = 8
    /\ \A i \in {1, 2, 4, 5, 7, 8} : AsciiDigit(v[i])
    /\ v[3] = "." /\ v[6] = "."

\* The number in field k (1 major, 2 minor, 3 patch) of a token
Field(v, k) == 10 * DigitValue(v[3 * k - 2]) + DigitValue(v[3 * k - 1])

\* increment_version has been applied to the token file0 with the flags of args
Incremented == pc \in {"incremented", "labelled"}

OnlyFlag(name) ==
    /\ args.M = (name = "major")
    /\ args.m = (name = "minor")
    /\ args.p = (name = "patch")

Unstarred(label) == SelectSeq(label, LAMBDA c : c # "*")

-----------------------------------------------------------------------------
(* Properties of the version functions, checked under SpecVersion          *)

\* C1: with only the major flag set, increment_version returns the version
\* ((major + 1) mod 100, 0, 0) as a zero-padded NN.NN.NN text, whatever the
\* minor and patch fields were.
C1_MajorOnly ==
    (Incremented /\ OnlyFlag("major")) =>
        /\ StrictToken(current_version)
        /\ Field(current_version, 1) = (Field(file0, 1) + 1) % 100
        /\ Field(current_version, 2) = 0
        /\ Field(current_version, 3) = 0

C1_Witness ==
    /\ pc = "incremented"
    /\ OnlyFlag("major")
    /\ file0 = V999999
    /\ current_version = <<"0", "0", ".", "0", "0", ".", "0", "0">>

\* C2 as stated: for every combination of flags, a major increment leaves
\* minor and patch at 00 and a minor increment leaves patch at 00.
C2_Original ==
    Incremented =>
        /\ args.M => Field(current_version, 2) = 0 /\ Field(current_version, 3) = 0
        /\ args.m => Field(current_version, 3) = 0

\* C2 as amended: incrementing a field resets every lower-order field to zero
\* before the lower-order increments of the same call are applied, so after a
\* major increment minor is 00, or 01 when the minor flag is set too, and
\* after a major or minor increment patch is 00, or 01 when the patch flag is
\* set too.
C2_ResetBeforeLower ==
    Incremented =>
        /\ args.M => Field(current_version, 2) = (IF args.m THEN 1 ELSE 0)
        /\ (args.M \/ args.m) => Field(current_version, 3) = (IF args.p THEN 1 ELSE 0)

C2_Witness ==
    /\ pc = "incremented"
    /\ args.M /\ args.m /\ ~args.p
    /\ Field(file0, 2) = 99 /\ Field(file0, 3) = 9
    /\ Field(current_version, 2) = 1
    /\ Field(current_version, 3) = 0

\* C3: the three fields wrap the same way: a field that holds 99 when it is
\* incremented becomes 00, the result never has a field above 99, and an
\* increment never carries into a higher-order field, which changes only by
\* its own flag.
C3_WrapNoCarry ==
    Incremented =>
        /\ StrictToken(current_version)
        /\ \A k \in 1..3 : Field(current_version, k) \in 0..99
        /\ (args.M /\ Field(file0, 1) = 99) => Field(current_version, 1) = 0
        /\ (args.m /\ ~args.M /\ Field(file0, 2) = 99) =>
               Field(current_version, 2) = 0
        /\ (args.p /\ ~args.M /\ ~args.m /\ Field(file0, 3) = 99) =>
               Field(current_version, 3) = 0
        /\ ~args.M => Field(current_version, 1) = Field(file0, 1)
        /\ (~args.M /\ ~args.m) => Field(current_version, 2) = Field(file0, 2)

C3_Witness ==
    /\ pc = "incremented"
    /\ OnlyFlag("patch")
    /\ Field(file0, 1) = 1 /\ Field(file0, 2) = 99 /\ Field(file0, 3) = 99
    /\ current_version = <<"0", "1", ".", "9", "9", ".", "0", "0">>

\* C4: a valid token of ASCII digits goes through parsing into three
\* integers and formatting with two-digit zero padding unchanged:
\* increment_version with no flag set returns it as it was, with an empty
\* list of incremented fields.
C4_RoundTrip ==
    (Incremented /\ ~args.M /\ ~args.m /\ ~args.p /\ StrictToken(file0)) =>
        /\ current_version = file0
        /\ incremented = <<>>

C4_Witness ==
    /\ pc = "incremented"
    /\ ~args.M /\ ~args.m /\ ~args.p
    /\ file0 = <<"0", "0", ".", "0", "9", ".", "1", "0">>
    /\ current_version = file0

\* C10: the label of an incremented version has a star right before exactly
\* the fields that were incremented (a field that was only reset has none),
\* the label without its stars is the new version, and with no increment the
\* label is the version.
C10_Stars ==
    pc = "labelled" =>
        LET parts == split(version_display, ".")
            flag == <<args.M, args.m, args.p>>
            name == <<"major", "minor", "patch">>
        IN  /\ Len(parts) = 3
            /\ \A k \in 1..3 :
                 /\ In(name[k], incremented) = flag[k]
                 /\ (Head(parts[k]) = "*") = flag[k]
                 /\ Len(parts[k]) = (IF flag[k] THEN 3 ELSE 2)
            /\ Unstarred(version_display) = current_version
            /\ incremented = <<>> => version_display = current_version

C10_Witness ==
    /\ pc = "labelled"
    /\ OnlyFlag("major")
    /\ file0 = V010509
    /\ current_version = <<"0", "2", ".", "0", "0", ".", "0", "0">>
    /\ version_display = <<"*", "0", "2", ".", "0", "0", ".", "0", "0">>

-----------------------------------------------------------------------------
(* Properties of the version store inside a run, checked under Spec        *)

NonZero(e) == e # NoExit /\ e[1] # 0

Issued(names) == \E i \in 1..Len(cmds) : cmds[i].name \in names

StageCommitPush == {"reset", "add", "reset HEAD", "commit", "push"}

\* The run was given a value for -s and has gone past the parsing of args.
GivenSet == args.s # None /\ pc \notin {"start", "parsed"}

\* The run reads the version (no -s value that counts) and its first
\* command, the root query of get_current_version, has been issued.
ReadsVersion == ~Truthy(args.s) /\ pc \notin {"start", "parsed"} /\ cmds # <<>>

\* C5 as stated: set_version, called with a text that is not exactly three
\* two-digit fields joined by periods, ends the process with a non-zero
\* status and leaves the version file as it was.
C5_Original ==
    (pc = "done" /\ Truthy(args.s) /\ ~Triplet(args.s)) =>
        /\ NonZero(exit)
        /\ file = file0

\* C6 as stated: a run given a -s value that does not match NN.NN.NN, the
\* empty text included, ends at once with a non-zero status, the version
\* file unmodified and no stage, commit or push command issued.
C6_Original ==
    (GivenSet /\ ~Triplet(args.s)) =>
        /\ pc = "done"
        /\ NonZero(exit)
        /\ file = file0
        /\ ~Issued(StageCommitPush)

\* C7 as stated: get_current_version returns the default and leaves it in
\* the file whenever the file is absent or its content does not match the
\* two-digit-triplet pattern.
C7_Original ==
    (pc = "have_version" /\ (file0 = Absent \/ ~Triplet(file0))) =>
        /\ current_version = DEFAULT_VERSION
        /\ file = DEFAULT_VERSION

\* C7 as amended: when the root query succeeds and the version file is
\* absent, or present with a content that, with the white space around it
\* trimmed, does not match the two-digit-triplet pattern, get_current_version
\* returns 00.00.01 and the file then holds exactly 00.00.01; a content that
\* matches once trimmed is returned trimmed and the file is left as it is;
\* and the call returns (the run goes on to its next command) whenever the
\* root query succeeded.
C7_SelfHeal ==
    /\ (pc = "have_version" /\ (file0 = Absent \/ ~Triplet(strip(file0)))) =>
          /\ current_version = DEFAULT_VERSION
          /\ file = DEFAULT_VERSION
          /\ written = <<DEFAULT_VERSION>>
    /\ (pc = "have_version" /\ file0 # Absent /\ Triplet(strip(file0))) =>
          /\ current_version = strip(file0)
          /\ file = file0
          /\ written = <<>>
    /\ (ReadsVersion /\ cmds[1].ok /\ pc = "done") => Len(cmds) >= 2
    /\ (ReadsVersion /\ cmds[1].ok) => current_version # None

C7_Witness ==
    /\ pc = "have_version"
    /\ file0 = V123
    /\ file = DEFAULT_VERSION
    /\ current_version = DEFAULT_VERSION

\* C8 as stated: when the root query fails, reading the version still gives
\* a version and the process is not terminated by it.
C8_Original ==
    (ReadsVersion /\ ~cmds[1].ok) =>
        /\ current_version # None
        /\ ~NonZero(exit)

\* C8 as amended: when the root query fails, reading the version does not
\* fall back to the current directory: the process ends with status 1, no
\* version is returned, the version file is neither created nor modified
\* and no further command is issued.
C8_RootFailureEnds ==
    (ReadsVersion /\ ~cmds[1].ok) =>
        /\ pc = "done"
        /\ exit = Exit(1)
        /\ current_version = None
        /\ file = file0
        /\ written = <<>>
        /\ Len(cmds) = 1
        /\ out[Len(out)].text = "Error: Not in a Git repository."

C8_Witness ==
    /\ ReadsVersion
    /\ cmds = <<Cmd("rev-parse", <<>>, FALSE)>>
    /\ file0 = Absent
    /\ file = Absent
    /\ exit = Exit(1)

\* C9: in a run started with none of -M, -m, -p, -s on a version file that
\* holds a valid token, the file is never written: at every point of the
\* run, and however it ends, the file has the content it had at the start.
C9_NoFlagsNoWrite ==
    (/\ pc # "start"
     /\ args.s = None /\ ~args.M /\ ~args.m /\ ~args.p
     /\ file0 # Absent /\ Triplet(strip(file0))) =>
        /\ file = file0
        /\ written = <<>>

C9_Witness ==
    /\ pc = "done"
    /\ exit = Exit(0)
    /\ args.s = None /\ ~args.M /\ ~args.m /\ ~args.p
    /\ file0 = V010509
    /\ Issued({"push"})
    /\ cmds[Len(cmds)].ok

-----------------------------------------------------------------------------
(* get_changed_files and the selection on their own: every status output   *)
(* of up to MaxLines lines, every exclusion text of up to MaxTokens tokens *)

MaxLines == 3
MaxTokens == 2

\* The two status letters git prints in front of a path.
StatusCodes ==
    { <<"?", "?">>, <<" ", "M">>, <<"M", " ">>, <<" ", "D">> }

\* The path of the i-th line.
PathNames == <<"a", "b", "c", "d", "e">>

RECURSIVE JoinLines(_, _)
JoinLines(codes, i) ==
    IF i > Len(codes) THEN <<>>
    ELSE codes[i] \o <<" ", PathNames[i], "\n">> \o JoinLines(codes, i + 1)

ListTrees ==
    { Tree(JoinLines(codes, 1), {<<PathNames[i]>> : i \in 1..Len(codes)}, {}) :
        codes \in UNION {[1..n -> StatusCodes] : n \in 1..MaxLines} }

\* What may stand between two commas of the exclusion text.
Tokens ==
    { <<>>, <<"0">>, <<"1">>, <<"2">>, <<"3">>, <<" ", "2">>,
      <<"0", "2">>, <<"a">>, <<"U+00B2">> }

RECURSIVE JoinTokens(_, _)
JoinTokens(toks, i) ==
    IF i > Len(toks) THEN <<>>
    ELSE (IF i > 1 THEN <<",">> ELSE <<>>) \o toks[i] \o JoinTokens(toks, i + 1)

ListExcludeInputs ==
    { JoinTokens(toks, 1) : toks \in UNION {[1..n -> Tokens] : n \in 1..MaxTokens} }

LInit ==
    /\ pc = "versioned"
    /\ run = 1
    /\ argv = <<>>
    /\ args = parse_args(argv, None)
    /\ file = V010203
    /\ file0 = file
    /\ written = <<>>
    /\ cmds = <<Cmd("rev-parse", <<>>, TRUE)>>
    /\ out = <<>>
    /\ exit = NoExit
    /\ current_version = file
    /\ incremented = <<>>
    /\ version_display = None
    /\ changed_files = <<>>
    /\ files_to_add = <<>>
    /\ full_commit_message = None
    /\ exclude_input = None
    /\ commit_message = None
    /\ tree \in ListTrees
    /\ index = tree.staged

\* line 213 and lines 215-233, on every exclusion text
SelectFilesOfList ==
    /\ pc = "listed"
    /\ \E raw \in ListExcludeInputs :
         LET r == select_files(raw, changed_files, World)
         IN  /\ Apply(r, "selected")
             /\ files_to_add' = r.ret
             /\ exclude_input' = strip(raw)
    /\ UNCHANGED <<run, argv, args, file0, current_version, incremented, version_display,
                   changed_files, full_commit_message,
                   commit_message, tree>>

LNext ==
    \/ GetChangedFiles
    \/ SelectFilesOfList

SpecList == LInit /\ [][LNext]_vars

-----------------------------------------------------------------------------
(* Properties of the change list and of the selection                      *)

\* The run has its list of change records.
Listed == pc \in {"listed", "selected", "staged", "message", "committed"}

\* The text the program shows for each class of the claim; added, renamed,
\* copied and unmerged have no text of their own in the program.
ClassTexts ==
    [untracked |-> {INSERT}, deleted |-> {DELETE}, modified |-> {UPDATE},
     added |-> {}, renamed |-> {}, copied |-> {}, unmerged |-> {},
     other |-> {Unknown}]

\* The class the claim gives to a status code, by its first character.
ClassOfFirst(status_code) ==
    LET c == status_code[1]
    IN  CASE c = "?" -> "untracked"
          [] c = "D" -> "deleted"
          [] c = "M" -> "modified"
          [] c = "A" -> "added"
          [] c = "R" -> "renamed"
          [] c = "C" -> "copied"
          [] c = "U" -> "unmerged"
          [] OTHER -> "other"

\* C11 as stated: every change record is classified by the first character
\* of its status code: a code beginning with M is shown as modified, with D
\* as deleted, with ? as untracked, and only a code that begins with none of
\* M, D, A, R, C, U, ? is shown as other.
C11_Original ==
    Listed =>
        \A i \in 1..Len(changed_files) :
            changed_files[i].status_text
                \in ClassTexts[ClassOfFirst(changed_files[i].status_code)]

\* The lines git printed, before run_command trimmed the output.
RawLines == SelectSeq(split(tree.stdout, "\n"), LAMBDA l : strip(l) # <<>>)

\* C12: get_changed_files returns one record per non-blank line of the
\* status output, in the output's order, each with the path that follows
\* the two status letters and the space after them; also for a line that
\* starts with a space, the first line included, whose leading space
\* run_command has trimmed.  '?? a' then 'M  b' gives (a, INSERT), (b, UPDATE).
C12_OneRecordPerLine ==
    Listed =>
        /\ Len(changed_files) = Len(RawLines)
        /\ \A i \in 1..Len(RawLines) :
              changed_files[i].filename = Drop(RawLines[i], StatusWidth + 1)
        /\ tree.stdout = <<"?", "?", " ", "a", "\n", "M", " ", " ", "b", "\n">> =>
              changed_files = <<[filename |-> <<"a">>, status_text |-> INSERT,
                                 status_code |-> <<"?", "?">>],
                                [filename |-> <<"b">>, status_text |-> UPDATE,
                                 status_code |-> <<"M">>]>>

\* A first line ' M a' whose leading space was trimmed, followed by a second
\* line that starts with a space too.
C12_Witness ==
    /\ pc = "listed"
    /\ tree.stdout = <<" ", "M", " ", "a", "\n", " ", "D", " ", "b", "\n">>
    /\ Filenames(changed_files) = << <<"a">>, <<"b">> >>
    /\ changed_files[1].status_text = UPDATE
    /\ changed_files[2].status_text = DELETE

\* The status query of this run exited zero.
StatusQueried == \E i \in 1..Len(cmds) : cmds[i].name = "status" /\ cmds[i].ok

\* C13: when the status query returns empty output, the run ends with exit
\* status 0 before any prompt (neither the exclusions nor the commit message
\* are read), and no reset, add, commit or push command is issued.
C13_CleanTreeEndsZero ==
    (StatusQueried /\ strip(tree.stdout) = <<>>) =>
        /\ pc = "done"
        /\ exit = Exit(0)
        /\ out[Len(out)] = Msg("No changes to commit.", <<>>)
        /\ exclude_input = None
        /\ commit_message = None
        /\ full_commit_message = None
        /\ ~Issued(StageCommitPush)

\* A run with -M on a clean tree: the version was written, then the run
\* ended at the status query.
C13_Witness ==
    /\ StatusQueried
    /\ tree = CleanTree
    /\ args.M
    /\ written # <<>>
    /\ exit = Exit(0)
    /\ cmds[Len(cmds)] = Cmd("status", <<>>, TRUE)

\* The exclusions have been read and applied.
Selected == exclude_input # None

RECURSIVE ZerosOff(_)
ZerosOff(s) == IF Len(s) > 1 /\ Head(s) = "0" THEN ZerosOff(Tail(s)) ELSE s

\* The token is a decimal integer, and the one that spells position p.
IntegerToken(tok) ==
    strip(tok) # <<>> /\ \A i \in 1..Len(strip(tok)) : AsciiDigit(strip(tok)[i])
Spells(tok, p) == IntegerToken(tok) /\ ZerosOff(strip(tok)) = str(p)

ExcludeTokens == IF exclude_input = <<>> THEN <<>> ELSE split(exclude_input, ",")

\* The 1-based positions the exclusion text names.
ExclusionSet ==
    {p \in 1..Len(changed_files) :
        \E k \in 1..Len(ExcludeTokens) : Spells(ExcludeTokens[k], p)}

\* The paths of the records from position i on whose position is not in excl.
RECURSIVE RetainedFrom(_, _)
RetainedFrom(i, excl) ==
    IF i > Len(changed_files) THEN <<>>
    ELSE (IF i \in excl THEN <<>> ELSE <<changed_files[i].filename>>)
           \o RetainedFrom(i + 1, excl)

\* C14: for every list of change records and every exclusion text made of
\* comma-separated integers, the retained paths are exactly those of the
\* records whose 1-based position is not in the exclusion set, in their
\* order; the empty text retains all, and "2" on three records retains the
\* first and the third.
C14_RetainedByPosition ==
    (Selected /\ \A k \in 1..Len(ExcludeTokens) : IntegerToken(ExcludeTokens[k])) =>
        /\ files_to_add = RetainedFrom(1, ExclusionSet)
        /\ exclude_input = <<>> => files_to_add = Filenames(changed_files)
        /\ (exclude_input = <<"2">> /\ Len(changed_files) = 3) =>
              files_to_add = <<changed_files[1].filename, changed_files[3].filename>>

C14_Witness ==
    /\ pc = "selected"
    /\ exclude_input = <<"0", "2", ",", "3">>
    /\ Filenames(changed_files) = << <<"a">>, <<"b">>, <<"c">> >>
    /\ files_to_add = << <<"a">> >>

\* C15 as stated: a token that does not parse as an integer is ignored on
\* its own and the integer tokens of the same text are still applied:
\* whatever the text, the retained paths are those of the records whose
\* position no integer token names, so "1,a" on three records retains the
\* second and the third.
C15_Original ==
    Selected => files_to_add = RetainedFrom(1, ExclusionSet)

\* The warning of the selection has been printed.
Warned == \E i \in 1..Len(out) : out[i].text = "Invalid input. Including all files."

\* C16 as stated: for an exclusion text that is not empty and has no integer
\* token, such as "a", all records are retained and a warning is printed.
C16_Original ==
    (/\ Selected
     /\ exclude_input # <<>>
     /\ \A k \in 1..Len(ExcludeTokens) : ~IntegerToken(ExcludeTokens[k])) =>
        /\ files_to_add = Filenames(changed_files)
        /\ Warned

\* The token is made of digit characters and is no integer: str.isdigit()
\* accepts it and int() rejects it.
RejectedDigitToken(tok) ==
    /\ strip(tok) # <<>>
    /\ \A i \in 1..Len(strip(tok)) :
          AsciiDigit(strip(tok)[i]) \/ strip(tok)[i] = "U+00B2"
    /\ ~IntegerToken(tok)

\* The token is an integer that is the position of no record.
OutOfRange(tok) ==
    IntegerToken(tok) /\ \A p \in 1..Len(changed_files) : ~Spells(tok, p)

\* C17 as stated: whenever the exclusion text has a token that is no integer
\* or an index outside 1..N, every record is retained, a warning is given and
\* the run is not ended by it.
C17_Original ==
    (/\ Selected
     /\ \E k \in 1..Len(ExcludeTokens) :
           ~IntegerToken(ExcludeTokens[k]) \/ OutOfRange(ExcludeTokens[k])) =>
        /\ files_to_add = Filenames(changed_files)
        /\ Warned
        /\ exit = NoExit

\* C17 as amended: every record is retained with a warning exactly when a
\* token is made of digit characters that int() rejects, and the run goes
\* on; any other text is applied without a warning, its other non-integer
\* tokens and its indices outside 1..N ignored and its indices inside 1..N
\* excluded, and the run ends at the selection only with status 0 and only
\* when those indices exclude every record.
C17_FallbackOnRejectedDigits ==
    Selected =>
        IF \E k \in 1..Len(ExcludeTokens) : RejectedDigitToken(ExcludeTokens[k])
        THEN /\ files_to_add = Filenames(changed_files)
             /\ Warned
             /\ pc # "done"
        ELSE /\ files_to_add = RetainedFrom(1, ExclusionSet)
             /\ ~Warned
             /\ (pc = "done" /\ ~Issued(StageCommitPush)) =>
                   (exit = Exit(0) /\ files_to_add = <<>>)

C17_Witness ==
    /\ pc = "selected"
    /\ exclude_input = <<"1", ",", "U+00B2">>
    /\ Len(changed_files) = 3
    /\ files_to_add = Filenames(changed_files)
    /\ Warned

\* C18: when the exclusions remove every record, the run ends there with
\* exit status 0, no reset, add, commit or push command has been issued, and
\* the paths staged are those that were staged when the run started.
C18_NothingSelectedEndsZero ==
    (Selected /\ files_to_add = <<>>) =>
        /\ pc = "done"
        /\ exit = Exit(0)
        /\ out[Len(out)] = Msg("No files selected for commit. Exiting.", <<>>)
        /\ ~Issued(StageCommitPush)
        /\ full_commit_message = None
        /\ index = tree.staged

\* All three records excluded, two of them staged before the run.
C18_Witness ==
    /\ Selected
    /\ exclude_input = <<"1", ",", " ", "2", ",", "3">>
    /\ Len(changed_files) = 3
    /\ files_to_add = <<>>
    /\ index = {<<"a">>, <<"c">>}
    /\ exit = Exit(0)

-----------------------------------------------------------------------------
(* Properties of the commands of a run, checked under Spec                 *)

\* The place of each command in the flow.
Rank(name) ==
    CASE name = "rev-parse" -> 1
      [] name = "status" -> 2
      [] name = "reset" -> 3
      [] name = "add" -> 4
      [] name = "reset HEAD" -> 5
      [] name = "commit" -> 6
      [] name = "push" -> 7

\* The paths of the listed records that are not retained, in order.
ExcludedPaths == SelectSeq(Filenames(changed_files), LAMBDA f : ~In(f, files_to_add))

\* The paths the unstage commands issued so far were given.
Unstaged ==
    LET u == SelectSeq(cmds, LAMBDA c : c.name = "reset HEAD")
    IN  [i \in 1..Len(u) |-> u[i].arg]

\* C19: the commands are issued in the order root query, status query,
\* reset, add, one unstage per excluded path, commit, push (the root query
\* alone may be repeated, for the write of an incremented version); each is
\* issued only after all the earlier ones exited zero; when one exits
\* non-zero the run is over with a non-zero status; commit is issued only
\* after reset, add and the unstage of every excluded path.
C19_CommandOrder ==
    /\ \A i \in 1..(Len(cmds) - 1) :
          /\ cmds[i].ok
          /\ Rank(cmds[i].name) <= Rank(cmds[i + 1].name)
          /\ Rank(cmds[i].name) = Rank(cmds[i + 1].name) =>
                cmds[i].name \in {"rev-parse", "reset HEAD"}
    /\ (cmds # <<>> /\ ~cmds[Len(cmds)].ok) => (pc = "done" /\ NonZero(exit))
    /\ \E k \in 0..Len(ExcludedPaths) : Unstaged = SubSeq(ExcludedPaths, 1, k)
    /\ Issued({"commit"}) =>
          /\ Issued({"reset"}) /\ Issued({"add"})
          /\ Unstaged = ExcludedPaths

\* A commit that failed after the unstage of an excluded path: the run is
\* over with status 1 and nothing was pushed.
C19_Witness ==
    /\ Len(cmds) >= 6
    /\ cmds[Len(cmds)] = Cmd("commit", full_commit_message, FALSE)
    /\ cmds[Len(cmds) - 1].name = "reset HEAD"
    /\ exit = Exit(1)
    /\ pc = "done"

\* The paths a record stands for: both paths of a rename "old -> new".
Arrow == <<" ", "-", ">", " ">>
RecordPaths(filename) ==
    IF \E k \in 1..(Len(filename) - 3) : SubSeq(filename, k, k + 3) = Arrow
    THEN LET k == CHOOSE j \in 1..(Len(filename) - 3) :
                      SubSeq(filename, j, j + 3) = Arrow
         IN  {SubSeq(filename, 1, k - 1), SubSeq(filename, k + 4, Len(filename))}
    ELSE {filename}

\* C20 as stated: when the commit command is about to be issued, the change
\* of every retained record is staged and the change of no excluded record
\* is staged, whatever was staged before the run and whichever indices were
\* excluded.
C20_Original ==
    pc = "message" =>
        \A i \in 1..Len(changed_files) :
            LET f == changed_files[i].filename
            IN  IF In(f, files_to_add)
                THEN RecordPaths(f) \subseteq index
                ELSE RecordPaths(f) \cap index = {}

-----------------------------------------------------------------------------
(* Properties of the commit, of the version file across runs and of -s     *)

\* The commit command this run issued.
CommitCmd == cmds[CHOOSE i \in 1..Len(cmds) : cmds[i].name = "commit"]

\* The run has pushed and printed its report.
Pushed == pc = "done" /\ Issued({"push"}) /\ exit = Exit(0)

\* C21 as stated: the commit message passed to the commit command is
\* "[<label>] <message>", the label being the annotated label of the version
\* the version file holds at that moment and the message the operator's
\* trimmed input, or the timestamped default when that is empty; the version
\* reported after the push is that version without markers.
C21_Original ==
    /\ Issued({"commit"}) =>
          /\ commit_message # <<>>
          /\ CommitCmd.arg =
                <<"[">> \o format_version_with_stars(strip(file), incremented)
                       \o <<"]", " ">> \o commit_message
    /\ Pushed =>
          out[Len(out)] = Msg("Successfully pushed with version", strip(file))

\* The run reads the version and was given an increment flag.
IncrementRun ==
    /\ pc \notin {"start", "parsed"}
    /\ ~Truthy(args.s)
    /\ args.M \/ args.m \/ args.p

\* The version such a run read, and the one it computed from it.
VersionRead ==
    IF file0 # Absent /\ Triplet(strip(file0)) THEN strip(file0) ELSE DEFAULT_VERSION
VersionComputed == increment_version(VersionRead, args.M, args.m, args.p).version

\* set_version got past its root query, the second command of such a run.
IncrementSaved ==
    /\ IncrementRun
    /\ Len(cmds) >= 2
    /\ cmds[2] = Cmd("rev-parse", <<>>, TRUE)

\* C22: in a run with an increment flag the incremented version is written
\* to the version file before the status query and before any stage, commit
\* or push command, and from then on, whichever way the run ends, the file
\* holds the incremented version.
C22_IncrementSavedAtOnce ==
    /\ (IncrementRun /\ pc = "versioned") =>
          /\ IncrementSaved
          /\ ~Issued({"status"} \cup StageCommitPush)
    /\ (IncrementRun /\ Issued({"status"} \cup StageCommitPush)) => IncrementSaved
    /\ IncrementSaved =>
          /\ file = VersionComputed
          /\ written # <<>> /\ written[Len(written)] = VersionComputed

\* A second run with -p that ends without a commit, on the file a first run
\* with -p left: the patch field has advanced twice, from 09 to 11.
C22_Witness ==
    /\ run = 2
    /\ IncrementSaved
    /\ OnlyFlag("patch")
    /\ file0 = <<"0", "1", ".", "0", "5", ".", "1", "0">>
    /\ file = <<"0", "1", ".", "0", "5", ".", "1", "1">>
    /\ pc = "done"
    /\ ~Issued({"commit"})

-----------------------------------------------------------------------------
(* The flags combined, checked under SpecVersion                           *)

\* The flags typed are exactly these, in whatever order.
Typed(flags) == {argv[i] : i \in 1..Len(argv)} = flags

\* The version is (a, b, c), each field written with two decimal digits.
IsVersion(v, a, b, c) ==
    /\ StrictToken(v)
    /\ Field(v, 1) = a /\ Field(v, 2) = b /\ Field(v, 3) = c

\* The label marks exactly the fields named in marked (1 major .. 3 patch).
Marks(label, marked) ==
    LET parts == split(label, ".")
    IN  /\ Len(parts) = 3
        /\ \A k \in 1..3 : (Head(parts[k]) = "*") = (k \in marked)

\* C23: the flags combine in the order major, minor, patch, wherever they
\* stand on the command line: from (a, b, c), all three give
\* ((a + 1) mod 100, 01, 01) with the three fields marked in the label,
\* major and patch give ((a + 1) mod 100, 00, 01), minor and patch give
\* (a, (b + 1) mod 100, 01).
C23_FlagsCombine ==
    LET a == Field(file0, 1)
        b == Field(file0, 2)
    IN  /\ (Incremented /\ Typed({"-M", "-m", "-p"})) =>
              /\ IsVersion(current_version, (a + 1) % 100, 1, 1)
              /\ pc = "labelled" => Marks(version_display, {1, 2, 3})
        /\ (Incremented /\ Typed({"-M", "-p"})) =>
              /\ IsVersion(current_version, (a + 1) % 100, 0, 1)
              /\ pc = "labelled" => Marks(version_display, {1, 3})
        /\ (Incremented /\ Typed({"-m", "-p"})) =>
              /\ IsVersion(current_version, a, (b + 1) % 100, 1)
              /\ pc = "labelled" => Marks(version_display, {2, 3})

\* -p -M -m typed in that order on 99.99.99
C23_Witness ==
    /\ pc = "labelled"
    /\ argv = <<"-p", "-M", "-m">>
    /\ file0 = V999999
    /\ current_version = <<"0", "0", ".", "0", "1", ".", "0", "1">>
    /\ version_display = <<"*", "0", "0", ".", "*", "0", "1", ".", "*", "0", "1">>

-----------------------------------------------------------------------------
(* The version file across runs and the runs with -s, checked under Spec   *)

\* C24 as stated: every value the program writes to the version file is
\* three two-digit fields joined by periods, so a file that holds such a
\* token when a run starts holds one at every later moment.
C24_Original ==
    /\ \A i \in 1..Len(written) : Triplet(written[i])
    /\ (file0 # Absent /\ Triplet(file0)) => (file # Absent /\ Triplet(file))

\* The run was given a -s value that is not empty and has acted on it.
SetRun == Truthy(args.s) /\ pc \notin {"start", "parsed"}

\* C25: a run given a non-empty -s value only sets the version: it is over
\* after set_version; the file holds the -s value if that was written and
\* what it held before otherwise, and a valid value is written whenever the
\* root query succeeds; the current version is not read and no default is
\* written; -M, -m, -p are not applied; the only command issued is the root
\* query, so the staged paths are those staged before.
C25_SetOnlyFrame ==
    SetRun =>
        /\ pc = "done"
        /\ \A i \in 1..Len(cmds) : i = 1 /\ cmds[i].name = "rev-parse"
        /\ ~Issued({"status"} \cup StageCommitPush)
        /\ written \in {<<>>, <<args.s>>}
        /\ file = (IF written = <<>> THEN file0 ELSE args.s)
        /\ (Triplet(args.s) /\ cmds = <<Cmd("rev-parse", <<>>, TRUE)>>) =>
              (written = <<args.s>> /\ exit = Exit(0))
        /\ current_version = None
        /\ incremented = <<>>
        /\ index = tree.staged

\* -s 01.02.03 given with all three increment flags, on a tree with staged
\* changes and a file holding 01.05.09.
C25_Witness ==
    /\ SetRun
    /\ args.s = V010203
    /\ Typed({"-M", "-m", "-p"})
    /\ file0 = V010509
    /\ file = V010203
    /\ index = {<<"a">>, <<"c">>}
    /\ exit = Exit(0)

-----------------------------------------------------------------------------
(* Indices out of range and repeated, checked under SpecList               *)

\* The exclusion text has an integer token that names no record, or names a
\* record that another token names too.
OddIndices ==
    \E k \in 1..Len(ExcludeTokens) :
        \/ OutOfRange(ExcludeTokens[k])
        \/ \E j \in 1..Len(ExcludeTokens), p \in 1..Len(changed_files) :
              j # k /\ Spells(ExcludeTokens[k], p) /\ Spells(ExcludeTokens[j], p)

\* C26: in an exclusion text of integer tokens, those outside 1..N and those
\* given more than once change nothing by themselves: a record is retained
\* exactly when its position is not among the in-range indices given, and
\* the number of retained records is N minus the number of distinct
\* in-range indices.
C26_OnlyInRangeIndicesCount ==
    (/\ Selected
     /\ OddIndices
     /\ \A k \in 1..Len(ExcludeTokens) : IntegerToken(ExcludeTokens[k])) =>
        /\ \A p \in 1..Len(changed_files) :
              In(changed_files[p].filename, files_to_add) = (p \notin ExclusionSet)
        /\ Len(files_to_add) = Len(changed_files) - Cardinality(ExclusionSet)
        /\ ~Warned

\* "3,02" on two records: 3 names no record, 02 names the second.
C26_Witness ==
    /\ pc = "selected"
    /\ exclude_input = <<"3", ",", "0", "2">>
    /\ Filenames(changed_files) = << <<"a">>, <<"b">> >>
    /\ files_to_add = << <<"a">> >>

====
